---- MODULE Spec2Model ----
(***************************************************************************)
(* The ld.so.cache parser of src/ldcache.c (main, lines 152-277) as a      *)
(* state machine over a byte buffer.                                       *)
(*                                                                         *)
(* Numbers.  The program computes with uint32_t values and 64-bit          *)
(* pointers.  A number is kept here as a pair <<hi, lo>> of value          *)
(* hi * 65536 + lo with lo in 0..65535, so that a 32-bit product and its   *)
(* reduction modulo 2^32 are both exact.  A pointer is kept as its         *)
(* distance from `buffer` (malloc returns storage aligned for any type,    *)
(* so a distance and an address agree modulo 8); a pointer plus a          *)
(* uint32_t never wraps a 64-bit address.                                  *)
(***************************************************************************)
EXTENDS Integers, Sequences, FiniteSets, TLC

(* ------------------------------------------------------------------ *)
(* Bounds of the checked inputs.                                       *)
(* ------------------------------------------------------------------ *)
MaxOld == 2
MaxNew == 2
MaxStr == 3

(* ------------------------------------------------------------------ *)
(* Arithmetic on <<hi, lo>> numbers.                                   *)
(* ------------------------------------------------------------------ *)
Half == 256 * 256

Norm(h, l) == <<h + (l \div Half), l % Half>>

FromInt(n) == Norm(0, n)

ToInt(a) == a[1] * Half + a[2]

Add(a, b) == Norm(a[1] + b[1], a[2] + b[2])

Mul(a, k) == Norm(a[1] * k, a[2] * k)

Lt(a, b) == a[1] < b[1] \/ (a[1] = b[1] /\ a[2] < b[2])

Ge(a, b) == ~Lt(a, b)

\* Conversion to uint32_t: the value modulo 2^32.
U32(a) == <<a[1] % Half, a[2]>>

Zero == <<0, 0>>

U32Max == <<Half - 1, Half - 1>>

(* ------------------------------------------------------------------ *)
(* Layout of the structures (x86-64 ABI).                              *)
(* ------------------------------------------------------------------ *)
CACHEMAGIC_OLD == <<108, 100, 46, 115, 111, 45, 49, 46, 55, 46, 48>>

CACHEMAGIC_NEW ==
    <<103, 108, 105, 98, 99, 45, 108, 100, 46, 115,
      111, 46, 99, 97, 99, 104, 101, 49, 46, 49>>

SizeofHeaderOld == 16
OffOldNlibs == 12
SizeofLibentryOld == 12
SizeofHeaderNew == 48
OffNewNlibs == 20
OffNewStringslen == 24
AlignofHeaderNew == 4
SizeofLibentryNew == 24
OffKey == 4
OffValue == 8
OffOsversion == 12
OffHwcap == 16

(* ------------------------------------------------------------------ *)
(* Reading the buffer.  Byte k of the file is buf[k + 1].              *)
(* ------------------------------------------------------------------ *)
InBuf(buf, p, n) == ~Lt(FromInt(Len(buf)), Add(p, FromInt(n)))

RdU16(buf, k) == buf[k + 1] + 256 * buf[k + 2]

RdU32(buf, k) == <<RdU16(buf, k + 2), RdU16(buf, k)>>

\* The bytes of the NUL-terminated string that starts at byte k; the scan
\* stops at the first 0x00.  HasNul says whether one exists in the buffer.
HasNul(buf, k) == \E e \in (k + 1)..Len(buf) : buf[e] = 0

NulAt(buf, k) == CHOOSE e \in (k + 1)..Len(buf) :
                    buf[e] = 0 /\ \A d \in (k + 1)..(e - 1) : buf[d] # 0

CStr(buf, k) == SubSeq(buf, k + 1, NulAt(buf, k) - 1)

\* strncmp(buf + k, magic, sizeof(magic) - 1) == 0.  The constant holds no
\* 0x00, so the comparison never stops early on an equal prefix.
RECURSIVE StrncmpFrom(_, _, _, _)
StrncmpFrom(buf, k, magic, j) ==
    IF j > Len(magic) THEN 0
    ELSE IF buf[k + j] # magic[j] THEN buf[k + j] - magic[j]
    ELSE IF buf[k + j] = 0 THEN 0
    ELSE StrncmpFrom(buf, k, magic, j + 1)

Strncmp(buf, k, magic) == StrncmpFrom(buf, k, magic, 1)

(* ------------------------------------------------------------------ *)
(* validatePtr and ALIGN_TYPE_OFFSET.                                  *)
(* ------------------------------------------------------------------ *)
validatePtr(base, limit, ptr, off) ==
    IF Lt(Add(ptr, off), base) THEN FALSE
    ELSE IF Ge(Add(ptr, off), Add(base, limit)) THEN FALSE
    ELSE TRUE

\* x & ~y on naturals: the bits of x that are not bits of y.
RECURSIVE BitAndNot(_, _)
BitAndNot(x, y) ==
    IF x = 0 THEN 0
    ELSE (IF x % 2 = 1 /\ y % 2 = 0 THEN 1 ELSE 0)
         + 2 * BitAndNot(x \div 2, y \div 2)

\* ((__alignof__(type) - 1) & (~(__alignof__(type) - 1))): the macro does
\* not use addr.
ALIGN_TYPE_OFFSET(addr, align) == BitAndNot(align - 1, align - 1)

(* ------------------------------------------------------------------ *)
(* The files the parser is run on.  A file is laid out field by field  *)
(* as the structures of lines 70-99 lay it out (little-endian), then   *)
(* cut short, extended, or changed in one byte.                        *)
(* ------------------------------------------------------------------ *)
LE16(n) == <<n % 256, n \div 256>>

LE32(w) == LE16(w[2]) \o LE16(w[1])

Zeros(n) == [k \in 1..n |-> 0]

HeaderOldBytes(nlibs) == CACHEMAGIC_OLD \o <<0>> \o LE32(nlibs)

HeaderNewBytes(nlibs, stringslen) ==
    CACHEMAGIC_NEW \o LE32(nlibs) \o LE32(stringslen) \o Zeros(20)

\* Entry idx carries flags = idx + 1 and osversion = idx + 1, so that the
\* entries of a file differ from one another.
LibentryNewBytes(idx, key, value) ==
    LE16(idx + 1) \o Zeros(2) \o LE32(key) \o LE32(value)
    \o LE32(FromInt(idx + 1)) \o Zeros(8)

\* The smallest counts whose product with the entry size does not fit in
\* 32 bits: 357913942 * 12 = 178956971 * 24 = 2^32 + 8.
OverflowOld == <<5461, 21846>>

OverflowNew == <<2730, 43691>>

OldCounts == {FromInt(n) : n \in 0..MaxOld} \cup {OverflowOld}

NewCounts == {FromInt(n) : n \in 0..MaxNew} \cup {OverflowNew}

\* The bytes a file holds for an entry array: count * size as the parser
\* computes it.
ArrayBytes(count, size) == ToInt(U32(Mul(count, size)))

\* The pad a producer inserts so that the new header starts on a multiple
\* of 8 (lines 45-48, 57).
PadTo8(n) == (8 - (n % 8)) % 8

\* The new entry array of a file: every entry has key = value = 0 except
\* entry dev, which has key k and value v.  An array too large to lay out
\* is cut to the bytes the parser reserves for it.
RECURSIVE NewEntries(_, _, _, _, _)
NewEntries(idx, count, dev, k, v) ==
    IF idx >= count THEN <<>>
    ELSE (IF idx = dev THEN LibentryNewBytes(idx, k, v)
          ELSE LibentryNewBytes(idx, Zero, Zero))
         \o NewEntries(idx + 1, count, dev, k, v)

NewArray(nNew, dev, k, v) ==
    IF nNew[1] = 0 THEN NewEntries(0, nNew[2], dev, k, v)
    ELSE SubSeq(LibentryNewBytes(0, k, v), 1,
                ArrayBytes(nNew, SizeofLibentryNew))

File(nOld, pad, nNew, dev, k, v, strs) ==
    HeaderOldBytes(nOld)
    \o Zeros(ArrayBytes(nOld, SizeofLibentryOld))
    \o Zeros(pad)
    \o HeaderNewBytes(nNew, FromInt(Len(strs)))
    \o NewArray(nNew, dev, k, v)
    \o strs

\* Offsets an entry is given: the ends of the string table as counted from
\* the strings (slen) and from the new header (all), and the extremes.
KeyChoices(slen, all) ==
    {Zero, FromInt(slen), FromInt(all - 1), FromInt(all), U32Max}

Deviations(nNew, slen) ==
    LET cnt == IF nNew[1] = 0 THEN nNew[2] ELSE 1
        all == SizeofHeaderNew + ArrayBytes(nNew, SizeofLibentryNew) + slen
        kv  == {<<k, Zero>> : k \in KeyChoices(slen, all)}
               \cup {<<Zero, v>> : v \in KeyChoices(slen, all)}
    IN  IF cnt = 0 THEN {<<0, Zero, Zero>>}
        ELSE {<<d, p[1], p[2]>> : d \in 0..(cnt - 1), p \in kv}

Strings(n) == [1..n -> {0, 97}]

\* Files of every shape, with and without the pad.
LaidOutFiles ==
    UNION {UNION {UNION {
        {File(nOld, pad, nNew, d[1], d[2], d[3], strs) :
            d \in Deviations(nNew, slen), strs \in Strings(slen),
            pad \in {0, PadTo8(SizeofHeaderOld
                               + ArrayBytes(nOld, SizeofLibentryOld))}}
        : slen \in 0..MaxStr} : nNew \in NewCounts} : nOld \in OldCounts}

\* Files with plain entries and an all-zero string table.
PlainFiles ==
    {File(nOld, 0, nNew, 0, Zero, Zero, Zeros(slen)) :
        nOld \in OldCounts, nNew \in NewCounts, slen \in 0..MaxStr}

\* Every proper prefix of a plain file, and the file with a byte appended.
CutFiles ==
    UNION {{SubSeq(f, 1, n) : n \in 0..(Len(f) - 1)} \cup {f \o <<0>>}
           : f \in PlainFiles}

\* One file with any one byte changed.
Changed(f, k, b) == [f EXCEPT ![k] = b]

ChangedFiles ==
    LET f == File(Zero, 0, FromInt(1), 0, Zero, Zero, <<0>>)
    IN  {Changed(f, k, 0) : k \in 1..Len(f)}
        \cup {Changed(f, k, (f[k] + 1) % 256) : k \in 1..Len(f)}

InputFiles == LaidOutFiles \cup CutFiles \cup ChangedFiles

VARIABLES buffer, pc, bufptr, offset, strtab, header_new, libs_new, i,
          result, failedAt, summary, out, lastCall, advances, oob

vars == <<buffer, pc, bufptr, offset, strtab, header_new, libs_new, i,
          result, failedAt, summary, out, lastCall, advances, oob>>

Init ==
    /\ buffer \in InputFiles
    /\ pc = "header_old"
    /\ bufptr = Zero
    /\ offset = Zero
    /\ strtab = Zero
    /\ header_new = Zero
    /\ libs_new = Zero
    /\ i = Zero
    /\ result = "running"
    /\ failedAt = "none"
    /\ summary = <<>>
    /\ out = <<>>
    /\ lastCall = <<>>
    /\ advances = <<>>
    /\ oob = {}

(* ------------------------------------------------------------------ *)
(* main, lines 152-277, one action per step.                           *)
(* ------------------------------------------------------------------ *)
filelen == Len(buffer)

\* validatePtr's uint32_t limit parameter receives the size_t filelen.
Limit == U32(FromInt(filelen))

header_old == Zero

OldNlibs == RdU32(buffer, ToInt(header_old) + OffOldNlibs)

NewNlibs == RdU32(buffer, ToInt(header_new) + OffNewNlibs)

Stringslen == RdU32(buffer, ToInt(header_new) + OffNewStringslen)

\* A call validatePtr(buffer, filelen, ptr, off) and what it returned.
Call(ptr, off) ==
    [base |-> Zero, limit |-> Limit, ptr |-> ptr, off |-> off,
     res |-> validatePtr(Zero, Limit, ptr, off)]

\* bufptr += by; the record keeps whether the latest validatePtr call
\* succeeded on exactly the range the cursor moves over.
Advance(step, by, calls) ==
    /\ bufptr' = Add(bufptr, by)
    /\ advances' = Append(advances,
          [step |-> step, from |-> bufptr, by |-> by,
           validated |-> /\ calls # <<>>
                         /\ calls[1].res
                         /\ calls[1].ptr = bufptr
                         /\ calls[1].off = by])

\* free(buffer); fclose(file); errx(EXIT_FAILURE, ...).
Errx(stage) ==
    /\ pc' = "done"
    /\ result' = "rejected"
    /\ failedAt' = stage

\* The process is ended by a fault on a read outside the buffer.
Fault(stage) ==
    /\ pc' = "done"
    /\ result' = "crashed"
    /\ failedAt' = stage

\* if (!validatePtr(buffer, filelen, bufptr, offset)) errx(...);
\* bufptr += offset;
Reserve(step, off, nextpc) ==
    /\ offset' = off
    /\ lastCall' = <<Call(bufptr, off)>>
    /\ IF Call(bufptr, off).res
       THEN /\ Advance(step, off, <<Call(bufptr, off)>>)
            /\ pc' = nextpc
            /\ UNCHANGED <<result, failedAt>>
       ELSE /\ Errx(step)
            /\ UNCHANGED <<bufptr, advances>>

\* Lines 155-162.
ReserveHeaderOld ==
    /\ pc = "header_old"
    /\ Reserve("header_old", FromInt(SizeofHeaderOld), "libs_old")
    /\ UNCHANGED <<buffer, strtab, header_new, libs_new, i, summary, out, oob>>

\* Lines 164-171.
ReserveLibsOld ==
    /\ pc = "libs_old"
    /\ Reserve("libs_old", U32(Mul(OldNlibs, SizeofLibentryOld)), "align")
    /\ UNCHANGED <<buffer, strtab, header_new, libs_new, i, summary, out, oob>>

\* Lines 173-186.
AlignHeaderNew ==
    /\ pc = "align"
    /\ strtab' = bufptr
    /\ Reserve("align",
               FromInt(ALIGN_TYPE_OFFSET(bufptr, AlignofHeaderNew)),
               "header_new")
    /\ UNCHANGED <<buffer, header_new, libs_new, i, summary, out, oob>>

\* Lines 192-199.
ReserveHeaderNew ==
    /\ pc = "header_new"
    /\ header_new' = bufptr
    /\ Reserve("header_new", FromInt(SizeofHeaderNew), "libs_new")
    /\ UNCHANGED <<buffer, strtab, libs_new, i, summary, out, oob>>

\* Lines 201-208.
ReserveLibsNew ==
    /\ pc = "libs_new"
    /\ libs_new' = bufptr
    /\ Reserve("libs_new", U32(Mul(NewNlibs, SizeofLibentryNew)), "strings")
    /\ UNCHANGED <<buffer, strtab, header_new, i, summary, out, oob>>

\* Lines 210-221: no validatePtr call; the cursor moves, then is compared.
AdvanceStrings ==
    /\ pc = "strings"
    /\ strtab' = header_new
    /\ Advance("strings", Stringslen, lastCall)
    /\ IF bufptr' # FromInt(filelen)
       THEN Errx("length")
       ELSE pc' = "magic_old" /\ UNCHANGED <<result, failedAt>>
    /\ UNCHANGED <<buffer, offset, header_new, libs_new, i, summary, out,
                   lastCall, oob>>

MagicOldOK == Strncmp(buffer, ToInt(header_old), CACHEMAGIC_OLD) = 0

\* Lines 223-229.
CheckMagicOld ==
    /\ pc = "magic_old"
    /\ IF ~MagicOldOK
       THEN Errx("magic_old")
       ELSE pc' = "magic_new" /\ UNCHANGED <<result, failedAt>>
    /\ UNCHANGED <<buffer, bufptr, offset, strtab, header_new, libs_new, i,
                   summary, out, lastCall, advances, oob>>

MagicNewOK == Strncmp(buffer, ToInt(header_new), CACHEMAGIC_NEW) = 0

\* Lines 231-237.
CheckMagicNew ==
    /\ pc = "magic_new"
    /\ IF ~MagicNewOK
       THEN Errx("magic_new")
       ELSE pc' = "terminator" /\ UNCHANGED <<result, failedAt>>
    /\ UNCHANGED <<buffer, bufptr, offset, strtab, header_new, libs_new, i,
                   summary, out, lastCall, advances, oob>>

\* The last byte is not looked at.
TerminatorSkipped == TRUE

\* *(bufptr - 1) == '\0'.
TerminatorOK == buffer[ToInt(bufptr)] = 0

\* Lines 239-247; then int i = 0 of line 250.
CheckTerminator ==
    /\ pc = "terminator"
    /\ IF ~TerminatorOK
       THEN Errx("terminator") /\ UNCHANGED i
       ELSE pc' = "validate" /\ i' = Zero /\ UNCHANGED <<result, failedAt>>
    /\ UNCHANGED <<buffer, bufptr, offset, strtab, header_new, libs_new,
                   summary, out, lastCall, advances, oob>>

\* &libs_new[n].
EntryAt(n) == Add(libs_new, Mul(n, SizeofLibentryNew))

\* What a uint32_t read outside the buffer may yield.
GarbageU32 == {Zero, U32Max}

\* The values a read of the uint32_t at `at` may yield.
Field(at) ==
    IF InBuf(buffer, at, 4) THEN {RdU32(buffer, ToInt(at))} ELSE GarbageU32

Outside(what, at) ==
    IF InBuf(buffer, at, 4) THEN {} ELSE {[what |-> what, at |-> at]}

\* The comparison with > for >=.
OffsetBadGt(k) == Lt(bufptr, Add(strtab, k))

\* strtab + libs_new[i].key >= bufptr (lines 251, 256).
OffsetBad(k) == Ge(Add(strtab, k), bufptr)

\* &strtab[k], and whether printf's %s finds the 0x00 inside the buffer.
StrStart(k) == Add(strtab, k)

StrInBuf(k) ==
    /\ Lt(StrStart(k), FromInt(filelen))
    /\ HasNul(buffer, ToInt(StrStart(k)))

\* Bytes read beyond the buffer.
Beyond == <<-1>>

Resolve(k) == IF StrInBuf(k) THEN CStr(buffer, ToInt(StrStart(k))) ELSE Beyond

Int16(x) == IF x >= 32768 THEN x - 65536 ELSE x

\* What lines 268-272 print for entry n, all of whose bytes are in the
\* buffer.
Record(n) ==
    LET e == ToInt(EntryAt(n))
    IN  [flags     |-> Int16(RdU16(buffer, e)),
         key       |-> Resolve(RdU32(buffer, e + OffKey)),
         value     |-> Resolve(RdU32(buffer, e + OffValue)),
         osversion |-> RdU32(buffer, e + OffOsversion),
         hwcap     |-> <<RdU32(buffer, e + OffHwcap + 4),
                         RdU32(buffer, e + OffHwcap)>>]

\* What is printed for an entry read outside the buffer.
Unreadable ==
    [flags |-> -1, key |-> Beyond, value |-> Beyond,
     osversion |-> Zero, hwcap |-> <<Zero, Zero>>]

\* The loop prints each entry as soon as it has passed.
ValidateEntryPrinting ==
    /\ pc = "validate"
    /\ Lt(i, NewNlibs)
    /\ InBuf(buffer, EntryAt(i), SizeofLibentryNew)
    /\ IF \/ OffsetBad(RdU32(buffer, ToInt(EntryAt(i)) + OffKey))
          \/ OffsetBad(RdU32(buffer, ToInt(EntryAt(i)) + OffValue))
       THEN Errx("key") /\ UNCHANGED <<i, out>>
       ELSE /\ i' = Add(i, FromInt(1))
            /\ out' = Append(out, Record(i))
            /\ UNCHANGED <<pc, result, failedAt>>
    /\ UNCHANGED <<buffer, bufptr, offset, strtab, header_new, libs_new,
                   summary, lastCall, advances, oob>>

\* Lines 250-261, one iteration.  A read outside the buffer faults or
\* yields any value.  Once the key of entry i lies outside the buffer so
\* does every later field, and each later iteration has the same outcomes
\* (fault, errx, pass): the iterations that pass are taken in one step.
ValidateEntry ==
    /\ pc = "validate"
    /\ Lt(i, NewNlibs)
    /\ LET kAt == Add(EntryAt(i), FromInt(OffKey))
           vAt == Add(EntryAt(i), FromInt(OffValue))
           kIn == InBuf(buffer, kAt, 4)
           vIn == InBuf(buffer, vAt, 4)
           faults == {"none"} \cup (IF kIn THEN {} ELSE {"key"})
                              \cup (IF vIn THEN {} ELSE {"value"})
       IN  \E k \in Field(kAt), v \in Field(vAt), f \in faults :
              IF f = "key"
              THEN Fault("validate") /\ oob' = oob \cup Outside("key", kAt)
                   /\ UNCHANGED i
              ELSE IF OffsetBad(k)
              THEN Errx("key") /\ oob' = oob \cup Outside("key", kAt)
                   /\ UNCHANGED i
              ELSE IF f = "value"
              THEN Fault("validate")
                   /\ oob' = oob \cup Outside("key", kAt)
                                 \cup Outside("value", vAt)
                   /\ UNCHANGED i
              ELSE IF OffsetBad(v)
              THEN Errx("value")
                   /\ oob' = oob \cup Outside("key", kAt)
                                 \cup Outside("value", vAt)
                   /\ UNCHANGED i
              ELSE /\ i' = IF kIn THEN Add(i, FromInt(1)) ELSE NewNlibs
                   /\ oob' = oob \cup Outside("key", kAt)
                                 \cup Outside("value", vAt)
                   /\ UNCHANGED <<pc, result, failedAt>>
    /\ UNCHANGED <<buffer, bufptr, offset, strtab, header_new, libs_new,
                   summary, out, lastCall, advances>>

\* i < header_new->nlibs is false: the loop of line 250 ends.
ValidateExit ==
    /\ pc = "validate"
    /\ ~Lt(i, NewNlibs)
    /\ pc' = "print_headers"
    /\ UNCHANGED <<buffer, bufptr, offset, strtab, header_new, libs_new, i,
                   result, failedAt, summary, out, lastCall, advances, oob>>

\* Lines 263-266; then int i = 0 of line 267.
PrintHeaders ==
    /\ pc = "print_headers"
    /\ summary' = <<SubSeq(buffer, 1, Len(CACHEMAGIC_OLD)), OldNlibs,
                    SubSeq(buffer, ToInt(header_new) + 1,
                           ToInt(header_new) + Len(CACHEMAGIC_NEW)),
                    NewNlibs>>
    /\ i' = Zero
    /\ pc' = "print"
    /\ UNCHANGED <<buffer, bufptr, offset, strtab, header_new, libs_new,
                   result, failedAt, out, lastCall, advances, oob>>

\* Lines 267-273, one iteration.  An entry that is not wholly in the
\* buffer is read outside it: a fault, or some record; every later entry
\* is outside too, and those iterations are taken in one step.
PrintEntry ==
    /\ pc = "print"
    /\ Lt(i, NewNlibs)
    /\ LET whole == InBuf(buffer, EntryAt(i), SizeofLibentryNew)
           k     == RdU32(buffer, ToInt(EntryAt(i)) + OffKey)
           v     == RdU32(buffer, ToInt(EntryAt(i)) + OffValue)
           reads == IF ~whole
                    THEN {[what |-> "entry", at |-> EntryAt(i)]}
                    ELSE {[what |-> "string", at |-> StrStart(x)] :
                             x \in {y \in {k, v} : ~StrInBuf(y)}}
           outcomes == IF reads = {} THEN {"printed"}
                       ELSE {"printed", "fault"}
       IN  \E o \in outcomes :
              /\ oob' = oob \cup reads
              /\ IF o = "fault"
                 THEN Fault("print") /\ UNCHANGED <<i, out>>
                 ELSE /\ out' = Append(out, IF whole THEN Record(i)
                                            ELSE Unreadable)
                      /\ i' = IF whole THEN Add(i, FromInt(1)) ELSE NewNlibs
                      /\ UNCHANGED <<pc, result, failedAt>>
    /\ UNCHANGED <<buffer, bufptr, offset, strtab, header_new, libs_new,
                   summary, lastCall, advances>>

\* Lines 275-277.
PrintExit ==
    /\ pc = "print"
    /\ ~Lt(i, NewNlibs)
    /\ pc' = "done"
    /\ result' = "accepted"
    /\ UNCHANGED <<buffer, bufptr, offset, strtab, header_new, libs_new, i,
                   failedAt, summary, out, lastCall, advances, oob>>

Next == ReserveHeaderOld \/ ReserveLibsOld \/ AlignHeaderNew
        \/ ReserveHeaderNew \/ ReserveLibsNew \/ AdvanceStrings
        \/ CheckMagicOld \/ CheckMagicNew \/ CheckTerminator
        \/ ValidateEntry \/ ValidateExit
        \/ PrintHeaders \/ PrintEntry \/ PrintExit

Spec == Init /\ [][Next]_vars

(* ------------------------------------------------------------------ *)
(* Properties.                                                         *)
(* ------------------------------------------------------------------ *)
\* The parser has passed every check (it is printing, or has returned 0).
AcceptedPhase == pc \in {"print_headers", "print"} \/ result = "accepted"

\* The entries i < header_new->nlibs one of whose fields (at `off`) is
\* stored in the buffer.
StoredEntries(off) ==
    {n \in 0..(filelen \div SizeofLibentryNew) :
        /\ Lt(FromInt(n), NewNlibs)
        /\ InBuf(buffer, Add(EntryAt(FromInt(n)), FromInt(off)), 4)}

FieldOf(n, off) == RdU32(buffer, ToInt(EntryAt(FromInt(n))) + off)

\* The smallest multiple of 8 that is >= a (65536 is a multiple of 8).
AlignUp8(a) == Add(a, FromInt(PadTo8(a[2])))

\* C1: every advance of the cursor in the layout walk, the advance over the
\* string table included, is over a range on which the validatePtr call
\* just before it succeeded.
C1_EveryAdvanceValidated ==
    \A k \in 1..Len(advances) : advances[k].validated

\* The least length the declared counts of a file ask for,
\* 16 + 12*count_old + pad + 48 + 24*count_new + stringslen, is more than
\* the file has; a file too short to hold a header is short of any minimum.
TooShort ==
    IF filelen < SizeofHeaderOld THEN TRUE
    ELSE LET hn == AlignUp8(Add(FromInt(SizeofHeaderOld),
                                Mul(OldNlibs, SizeofLibentryOld)))
         IN  IF ~InBuf(buffer, hn, SizeofHeaderNew) THEN TRUE
             ELSE LET cnt  == RdU32(buffer, ToInt(hn) + OffNewNlibs)
                      slen == RdU32(buffer, ToInt(hn) + OffNewStringslen)
                  IN  Lt(FromInt(filelen),
                         Add(Add(hn, FromInt(SizeofHeaderNew)),
                             Add(Mul(cnt, SizeofLibentryNew), slen)))

\* C2: a buffer shorter than its own declared counts require is rejected,
\* and no byte outside the buffer is ever read.
C2_TruncatedRejectedInBounds ==
    /\ oob = {}
    /\ (pc = "done" /\ TooShort) => result = "rejected"

\* C3: validatePtr returns true only for a range inside
\* [base, base + limit), and returns true for a range inside it that ends
\* exactly at base + limit or is empty.
C3_ValidatePtrContract ==
    \A n \in 1..Len(lastCall) :
        LET c      == lastCall[n]
            stop   == Add(c.ptr, c.off)
            end    == Add(c.base, c.limit)
            inside == Ge(c.ptr, c.base) /\ ~Lt(end, stop)
        IN  /\ c.res => inside
            /\ (inside /\ (stop = end \/ c.off = Zero)) => c.res

\* C4: the cursor moves over an entry array by exactly count * entry size,
\* the product taken without reduction modulo 2^32.
C4_TrueProduct ==
    \A k \in 1..Len(advances) :
        /\ advances[k].step = "libs_old"
              => advances[k].by = Mul(OldNlibs, SizeofLibentryOld)
        /\ advances[k].step = "libs_new"
              => advances[k].by = Mul(NewNlibs, SizeofLibentryNew)

\* C5: the new header is placed at the smallest multiple of 8 that is >=
\* the cursor reached after the old entry array.
C5_NewHeaderAligned ==
    \A k \in 1..Len(advances) :
        advances[k].step = "align"
            => Add(advances[k].from, advances[k].by)
                   = AlignUp8(advances[k].from)

\* C6 as stated: an accepted file has key < stringslen and
\* value < stringslen in every entry, and a rejected one yields no record.
C6_OffsetsBelowStringslen ==
    /\ AcceptedPhase =>
          /\ \A n \in StoredEntries(OffKey) :
                 Lt(FieldOf(n, OffKey), Stringslen)
          /\ \A n \in StoredEntries(OffValue) :
                 Lt(FieldOf(n, OffValue), Stringslen)
    /\ result = "rejected" => out = <<>>

\* C6 as amended: an accepted file has header_new + key and
\* header_new + value before the end of the buffer in every entry stored
\* in it, and a file rejected for an offset at or past the end yields no
\* record and no header summary.
C6_OffsetsBeforeBufferEnd ==
    /\ AcceptedPhase =>
          /\ \A n \in StoredEntries(OffKey) :
                 Lt(Add(header_new, FieldOf(n, OffKey)), FromInt(filelen))
          /\ \A n \in StoredEntries(OffValue) :
                 Lt(Add(header_new, FieldOf(n, OffValue)), FromInt(filelen))
    /\ result = "rejected" => out = <<>> /\ summary = <<>>

\* A file is rejected, with nothing printed, for an entry after the first
\* whose offset points exactly at the end of the buffer.
C6_Witness ==
    /\ result = "rejected"
    /\ failedAt \in {"key", "value"}
    /\ i # Zero
    /\ oob = {}
    /\ out = <<>>
    /\ \/ Add(header_new, FieldOf(ToInt(i), OffKey)) = FromInt(filelen)
       \/ Add(header_new, FieldOf(ToInt(i), OffValue)) = FromInt(filelen)

\* A well-formed file: old magic, N old entries, the pad to a multiple of
\* 8, new magic, M entries with offsets inside the string table, a string
\* table that ends in 0x00, and no byte more.
WellFormedAt(hn) ==
    /\ InBuf(buffer, hn, SizeofHeaderNew)
    /\ SubSeq(buffer, ToInt(hn) + 1, ToInt(hn) + Len(CACHEMAGIC_NEW))
           = CACHEMAGIC_NEW
    /\ LET cnt  == RdU32(buffer, ToInt(hn) + OffNewNlibs)
           slen == RdU32(buffer, ToInt(hn) + OffNewStringslen)
           ents == Add(hn, FromInt(SizeofHeaderNew))
       IN  /\ FromInt(filelen)
                  = Add(ents, Add(Mul(cnt, SizeofLibentryNew), slen))
           /\ slen # Zero
           /\ buffer[filelen] = 0
           /\ \A n \in 0..(ToInt(cnt) - 1) :
                  /\ Lt(RdU32(buffer, ToInt(ents) + n * SizeofLibentryNew
                                       + OffKey), slen)
                  /\ Lt(RdU32(buffer, ToInt(ents) + n * SizeofLibentryNew
                                       + OffValue), slen)

WellFormed ==
    /\ filelen >= SizeofHeaderOld
    /\ SubSeq(buffer, 1, Len(CACHEMAGIC_OLD)) = CACHEMAGIC_OLD
    /\ WellFormedAt(AlignUp8(Add(FromInt(SizeofHeaderOld),
                                 Mul(OldNlibs, SizeofLibentryOld))))

\* C7: a well-formed file is accepted and yields exactly M records, record
\* n being entry n of the file.
C7_WellFormedYieldsRecords ==
    (pc = "done" /\ WellFormed) =>
        LET hn   == AlignUp8(Add(FromInt(SizeofHeaderOld),
                                 Mul(OldNlibs, SizeofLibentryOld)))
            cnt  == ToInt(RdU32(buffer, ToInt(hn) + OffNewNlibs))
            ents == ToInt(hn) + SizeofHeaderNew
        IN  /\ result = "accepted"
            /\ Len(out) = cnt
            /\ \A n \in 0..(cnt - 1) :
                   /\ out[n + 1].flags
                          = Int16(RdU16(buffer, ents + n * SizeofLibentryNew))
                   /\ out[n + 1].osversion
                          = RdU32(buffer, ents + n * SizeofLibentryNew
                                           + OffOsversion)

\* C8: once the parser prints, both magics are in the file byte for byte,
\* header_new + 48 + 24*count_new + stringslen is the length of the buffer,
\* and the last byte of the buffer is 0x00.
C8_AcceptedImpliesFormat ==
    AcceptedPhase =>
        /\ SubSeq(buffer, 1, Len(CACHEMAGIC_OLD)) = CACHEMAGIC_OLD
        /\ SubSeq(buffer, ToInt(header_new) + 1,
                  ToInt(header_new) + Len(CACHEMAGIC_NEW)) = CACHEMAGIC_NEW
        /\ FromInt(filelen)
               = Add(Add(header_new, FromInt(SizeofHeaderNew)),
                     Add(Mul(NewNlibs, SizeofLibentryNew), Stringslen))
        /\ buffer[filelen] = 0

\* C9: nothing is printed before the offsets of every entry have been
\* checked: a header summary or a record exists only once the validation
\* loop has run to its end with every stored entry passing, and a rejected
\* parse has printed nothing.
C9_AllOrNothing ==
    /\ (summary # <<>> \/ out # <<>>) =>
          /\ pc \in {"print", "done"}
          /\ result # "rejected"
          /\ \A n \in StoredEntries(OffKey) : ~OffsetBad(FieldOf(n, OffKey))
          /\ \A n \in StoredEntries(OffValue) :
                 ~OffsetBad(FieldOf(n, OffValue))
    /\ result = "rejected" => summary = <<>> /\ out = <<>>

\* A parse is rejected for an entry after one that had passed, and nothing
\* has been printed.
C9_Witness ==
    /\ result = "rejected"
    /\ failedAt \in {"key", "value"}
    /\ Lt(Zero, i)
    /\ oob = {}
    /\ summary = <<>>
    /\ out = <<>>

\* C10: in an accepted file the key and value strings of every stored
\* entry start before the end of the buffer and have their 0x00 inside the
\* buffer, and no string is read past the end.
C10_StringsEndInBuffer ==
    /\ AcceptedPhase =>
          /\ \A n \in StoredEntries(OffKey) : StrInBuf(FieldOf(n, OffKey))
          /\ \A n \in StoredEntries(OffValue) :
                 StrInBuf(FieldOf(n, OffValue))
    /\ \A r \in oob : r.what # "string"

\* An accepted file with an entry whose key starts at the last byte of a
\* string table that holds other bytes than 0x00; the key is printed as the
\* empty string.
C10_Witness ==
    /\ result = "accepted"
    /\ oob = {}
    /\ \E b \in (ToInt(bufptr) - ToInt(Stringslen) + 1)..filelen :
           buffer[b] # 0
    /\ \E n \in StoredEntries(OffKey) :
           /\ StrStart(FieldOf(n, OffKey)) = FromInt(filelen - 1)
           /\ out[n + 1].key = <<>>

====
